---------------------------- MODULE Spec2Model ----------------------------
(***************************************************************************)
(* A model of contract_search_app (src/app.py): the extraction pipeline    *)
(* that turns a fetched page into a contract record, and the loop that     *)
(* processes a list of URLs with an optional date filter.                  *)
(*                                                                         *)
(* Text is modelled at the character level: a Python str is a sequence of  *)
(* one-character strings.  The regular expressions of the source are       *)
(* translated to syntax trees and run by a backtracking matcher with       *)
(* Python's priority order (greedy repeats, ordered alternation, leftmost  *)
(* match), so that what a pattern captures is computed, not assumed.       *)
(***************************************************************************)
EXTENDS Integers, Sequences, FiniteSets, TLC

VARIABLES
    pc,         \* position of the running call: "call" before, "loop" inside the
                \* URL loop, "done" after
    fn,         \* the name of the function that is called
    text,       \* the argument of the extractor under test (a URL, for the page processor)
    arg,        \* its second argument, where it has one (max_sentences)
    out,        \* what the call returned
    today,      \* the date of the system clock, <<year, month, day>>
    old_bs4,    \* whether the installed BeautifulSoup's get_text() reads the strings
                \* of <script> and <style> (releases before 4.11 do, later ones do not)
    web,        \* what fetching each URL gives: a page or an error
    urls,       \* process_urls_with_date_filter: the list of URLs to process
    date_range, \* its date_range argument: None or Some(<<start_date, end_date>>)
    idx,        \* the position of its loop in urls
    results,    \* its list of results
    attempts,   \* history: the URLs it has given to process_contract_page, in order
    created,    \* history: every record process_contract_page returned, as returned
    calls,      \* history: every call of an extractor, with its input and output
    saved_urls  \* st.session_state.saved_urls: the list of saved URL entries

harness == <<pc, fn, text, arg, out>>
env == <<today, old_bs4, web>>
run == <<urls, date_range, idx, results, attempts, created, calls>>
vars == <<harness, env, run, saved_urls>>

\* the clock and the library do not matter to the extractors that read neither
Day0 == <<2024, 3, 1>>
Day1 == <<2024, 3, 2>>
NoRun == urls = <<>> /\ date_range = <<>> /\ idx = 0 /\ results = <<>> /\ attempts = <<>>
         /\ created = <<>> /\ calls = <<>> /\ saved_urls = <<>>

(***************************************************************************)
(* Characters and strings                                                  *)
(***************************************************************************)
LowerSeq == <<"a","b","c","d","e","f","g","h","i","j","k","l","m",
              "n","o","p","q","r","s","t","u","v","w","x","y","z">>
UpperSeq == <<"A","B","C","D","E","F","G","H","I","J","K","L","M",
              "N","O","P","Q","R","S","T","U","V","W","X","Y","Z">>
DigitSeq == <<"0","1","2","3","4","5","6","7","8","9">>

LowerLetters == {LowerSeq[i] : i \in 1..26}
UpperLetters == {UpperSeq[i] : i \in 1..26}
Digits == {DigitSeq[i] : i \in 1..10}
WordChars == LowerLetters \cup UpperLetters \cup Digits \cup {"_"}
Whitespace == {" ", "\n", "\t"}

LowerOf == [c \in UpperLetters |-> LowerSeq[CHOOSE i \in 1..26 : UpperSeq[i] = c]]
UpperOf == [c \in LowerLetters |-> UpperSeq[CHOOSE i \in 1..26 : LowerSeq[i] = c]]

\* str.lower() on one character and on a string
lower_char(c) == IF c \in UpperLetters THEN LowerOf[c] ELSE c
upper_char(c) == IF c \in LowerLetters THEN UpperOf[c] ELSE c
str_lower(s) == [i \in 1..Len(s) |-> lower_char(s[i])]

\* `needle in haystack` on strings
str_in(needle, haystack) ==
    \E i \in 1..(Len(haystack) - Len(needle) + 1) :
        SubSeq(haystack, i, i + Len(needle) - 1) = needle

RECURSIVE Flatten(_)
Flatten(ss) == IF ss = <<>> THEN <<>> ELSE Head(ss) \o Flatten(Tail(ss))

\* Absent (Python's None) is the empty tuple, a present value v is <<v>>.
None == <<>>
Some(v) == <<v>>

(***************************************************************************)
(* Regular expressions: syntax trees and the backtracking matcher          *)
(***************************************************************************)
Chr(c) == [t |-> "chr", c |-> c]
Lit(w) == [t |-> "lit", w |-> w]
Cls(chars) == [t |-> "cls", s |-> chars]
Cat(rs) == [t |-> "cat", rs |-> rs]
Alt(rs) == [t |-> "alt", rs |-> rs]
Rep(r, lo, hi) == [t |-> "rep", r |-> r, lo |-> lo, hi |-> hi]
Inf == -1
Star(r) == Rep(r, 0, Inf)
Plus(r) == Rep(r, 1, Inf)
Opt(r) == Rep(r, 0, 1)
WordBoundary == [t |-> "wb"]
Empty == Cat(<<>>)

\* one character against a literal / a class, under re.IGNORECASE or not
chr_eq(c, d, ic) == IF ic THEN lower_char(c) = lower_char(d) ELSE c = d
chr_in(c, chars, ic) ==
    IF ic THEN c \in chars \/ lower_char(c) \in chars \/ upper_char(c) \in chars
    ELSE c \in chars

\* the least element of a non-empty set of integers
min_of(ns) == CHOOSE n \in ns : \A m \in ns : n <= m

\* A greedy repeat of a one-character item (a literal or a class) from
\* position i: the item matches a run of n characters, and the repeat can end
\* after each count from the most allowed down to the least.
one_char(r, s, i, ic) ==
    i <= Len(s) /\ IF r.t = "chr" THEN chr_eq(s[i], r.c, ic) ELSE chr_in(s[i], r.s, ic)
run_ends(r, s, i, ic) ==
    LET room == Len(s) - i + 1
        cap == IF r.hi = Inf \/ r.hi > room THEN room ELSE r.hi
    IN  CHOOSE ends \in
            {IF stop - 1 < r.lo THEN <<>>
             ELSE [j \in 1..(stop - r.lo) |-> i + stop - j]
             \* the first count k that the run does not reach
             : stop \in {CHOOSE k \in 1..(cap + 1) :
                            /\ k = cap + 1 \/ ~one_char(r.r, s, i + k - 1, ic)
                            /\ \A j \in 1..(k - 1) : one_char(r.r, s, i + j - 1, ic)}} : TRUE

\* Ends(r, s, i, ic): the positions at which a match of r that starts at
\* position i of s can end, in the order the backtracking matcher tries them.
RECURSIVE Ends(_, _, _, _), EndsCat(_, _, _, _, _), EndsAlt(_, _, _, _, _),
          EndsRep(_, _, _, _, _)
Ends(r, s, i, ic) ==
    CASE r.t = "chr" -> IF one_char(r, s, i, ic) THEN <<i + 1>> ELSE <<>>
      [] r.t = "cls" -> IF one_char(r, s, i, ic) THEN <<i + 1>> ELSE <<>>
      [] r.t = "lit" -> IF /\ i + Len(r.w) - 1 <= Len(s)
                           /\ \A k \in 1..Len(r.w) : chr_eq(s[i + k - 1], r.w[k], ic)
                        THEN <<i + Len(r.w)>> ELSE <<>>
      [] r.t = "wb"  -> LET is_word(j) == j >= 1 /\ j <= Len(s) /\ s[j] \in WordChars
                        IN  IF is_word(i - 1) # is_word(i) THEN <<i>> ELSE <<>>
      [] r.t = "cat" -> EndsCat(r.rs, 1, s, i, ic)
      [] r.t = "alt" -> EndsAlt(r.rs, 1, s, i, ic)
      [] r.t = "rep" -> IF r.r.t \in {"chr", "cls"} THEN run_ends(r, s, i, ic)
                        ELSE EndsRep(r, 0, s, i, ic)
\* the items rs[k..] in sequence: each end of rs[k], in order, continued by the rest
EndsCat(rs, k, s, i, ic) ==
    IF k > Len(rs) THEN <<i>>
    ELSE CHOOSE ends \in
        {Flatten([j \in 1..Len(es) |-> EndsCat(rs, k + 1, s, es[j], ic)])
         : es \in {Ends(rs[k], s, i, ic)}} : TRUE
\* the alternatives rs[k..], the earlier first
EndsAlt(rs, k, s, i, ic) ==
    IF k > Len(rs) THEN <<>>
    ELSE Ends(rs[k], s, i, ic) \o EndsAlt(rs, k + 1, s, i, ic)
\* a greedy repeat after n rounds: one more round first, stopping here last
EndsRep(r, n, s, i, ic) ==
    CHOOSE ends \in
        {Flatten([j \in 1..Len(es) |->
                    IF es[j] > i THEN EndsRep(r, n + 1, s, es[j], ic) ELSE <<>>])
         \o IF n >= r.lo THEN <<i>> ELSE <<>>
         : es \in {IF r.hi = Inf \/ n < r.hi THEN Ends(r.r, s, i, ic) ELSE <<>>}} : TRUE

\* A pattern with one capturing group: what precedes the group, the group,
\* what follows it.  src is the pattern's source text, which the code tests.
Pattern(src, pre, grp, post) == [src |-> src, pre |-> pre, grp |-> grp, post |-> post]

\* The first match that starts at position i: <<group start, group end, match end>>
RECURSIVE FirstPre(_, _, _, _, _), FirstGrp(_, _, _, _, _, _)
FirstPre(p, as, j, s, ic) ==
    IF j > Len(as) THEN <<>>
    ELSE CHOOSE first \in
        {IF m # <<>> THEN m ELSE FirstPre(p, as, j + 1, s, ic)
         : m \in {FirstGrp(p, bs, 1, as[j], s, ic)
                  : bs \in {Ends(p.grp, s, as[j], ic)}}} : TRUE
FirstGrp(p, bs, j, a, s, ic) ==
    IF j > Len(bs) THEN <<>>
    ELSE CHOOSE first \in
        {IF es # <<>> THEN <<a, bs[j], es[1]>> ELSE FirstGrp(p, bs, j + 1, a, s, ic)
         : es \in {Ends(p.post, s, bs[j], ic)}} : TRUE
match_at(p, s, i, ic) ==
    CHOOSE first \in {FirstPre(p, as, 1, s, ic) : as \in {Ends(p.pre, s, i, ic)}} : TRUE
\* the same match, with the position at which the scan for the next one starts:
\* the end of the match, or one further on after an empty match
match_from(p, s, i, ic) ==
    CHOOSE m \in {<<at[1], at[2], IF at[3] > i THEN at[3] ELSE i + 1>>
                  : at \in {match_at(p, s, i, ic)}} : TRUE

\* re.findall(pattern, s, flags) for a pattern with one group: the group of
\* every non-overlapping match, leftmost first.  starts holds, in order, the
\* positions at which the pattern matches; the scan takes the first one at or
\* after pos and goes on from where that match ends.
RECURSIVE re_scan(_, _, _, _, _, _)
re_scan(p, s, starts, k, pos, ic) ==
    IF k > Len(starts) THEN <<>>
    ELSE IF starts[k] < pos THEN re_scan(p, s, starts, k + 1, pos, ic)
    ELSE CHOOSE found \in
        {<<SubSeq(s, m[1], m[2] - 1)>> \o re_scan(p, s, starts, k + 1, m[3], ic)
         : m \in {match_from(p, s, starts[k], ic)}} : TRUE
re_findall(p, s, ic) ==
    CHOOSE found \in
        {re_scan(p, s, starts, 1, 1, ic)
         : starts \in {SelectSeq([i \in 1..(Len(s) + 1) |-> i],
                                 LAMBDA i : match_at(p, s, i, ic) # <<>>)}} : TRUE

\* int(str) of a string of digits
RECURSIVE int_of(_)
int_of(ds) == IF ds = <<>> THEN 0
              ELSE 10 * int_of(SubSeq(ds, 1, Len(ds) - 1)) + ((CHOOSE d \in 1..10 : DigitSeq[d] = ds[Len(ds)]) - 1)

(***************************************************************************)
(* extract_duration                                                        *)
(***************************************************************************)
Dgt == Cls(Digits)          \* \d
Wsp == Cls(Whitespace)      \* \s

DurationPatterns == <<
    \* (\d+)\s*year[s]?
    Pattern(<<"(","\\","d","+",")","\\","s","*","y","e","a","r","[","s","]","?">>,
            Empty, Plus(Dgt), Cat(<<Star(Wsp), Lit(<<"y","e","a","r">>), Opt(Chr("s"))>>)),
    \* (\d+)\s*month[s]?
    Pattern(<<"(","\\","d","+",")","\\","s","*","m","o","n","t","h","[","s","]","?">>,
            Empty, Plus(Dgt), Cat(<<Star(Wsp), Lit(<<"m","o","n","t","h">>), Opt(Chr("s"))>>)),
    \* duration\s+of\s+(\d+)\s*year[s]?
    Pattern(<<"d","u","r","a","t","i","o","n","\\","s","+","o","f","\\","s","+",
              "(","\\","d","+",")","\\","s","*","y","e","a","r","[","s","]","?">>,
            Cat(<<Lit(<<"d","u","r","a","t","i","o","n">>), Plus(Wsp), Lit(<<"o","f">>), Plus(Wsp)>>),
            Plus(Dgt), Cat(<<Star(Wsp), Lit(<<"y","e","a","r">>), Opt(Chr("s"))>>)),
    \* duration\s+of\s+(\d+)\s*month[s]?
    Pattern(<<"d","u","r","a","t","i","o","n","\\","s","+","o","f","\\","s","+",
              "(","\\","d","+",")","\\","s","*","m","o","n","t","h","[","s","]","?">>,
            Cat(<<Lit(<<"d","u","r","a","t","i","o","n">>), Plus(Wsp), Lit(<<"o","f">>), Plus(Wsp)>>),
            Plus(Dgt), Cat(<<Star(Wsp), Lit(<<"m","o","n","t","h">>), Opt(Chr("s"))>>)),
    \* term\s+of\s+(\d+)\s*year[s]?
    Pattern(<<"t","e","r","m","\\","s","+","o","f","\\","s","+",
              "(","\\","d","+",")","\\","s","*","y","e","a","r","[","s","]","?">>,
            Cat(<<Lit(<<"t","e","r","m">>), Plus(Wsp), Lit(<<"o","f">>), Plus(Wsp)>>),
            Plus(Dgt), Cat(<<Star(Wsp), Lit(<<"y","e","a","r">>), Opt(Chr("s"))>>)),
    \* term\s+of\s+(\d+)\s*month[s]?
    Pattern(<<"t","e","r","m","\\","s","+","o","f","\\","s","+",
              "(","\\","d","+",")","\\","s","*","m","o","n","t","h","[","s","]","?">>,
            Cat(<<Lit(<<"t","e","r","m">>), Plus(Wsp), Lit(<<"o","f">>), Plus(Wsp)>>),
            Plus(Dgt), Cat(<<Star(Wsp), Lit(<<"m","o","n","t","h">>), Opt(Chr("s"))>>)),
    \* (\d+)-year
    Pattern(<<"(","\\","d","+",")","-","y","e","a","r">>,
            Empty, Plus(Dgt), Lit(<<"-","y","e","a","r">>)),
    \* (\d+)-month
    Pattern(<<"(","\\","d","+",")","-","m","o","n","t","h">>,
            Empty, Plus(Dgt), Lit(<<"-","m","o","n","t","h">>)) >>

\* extract_duration trying each month pattern before its year pattern
RECURSIVE duration_months_first(_, _)
duration_months_first(s, k) ==
    IF k > Len(DurationPatterns) THEN None
    ELSE LET pattern == DurationPatterns[<<2, 1, 4, 3, 6, 5, 8, 7>>[k]]
         IN  CHOOSE result \in
                 {IF matches # <<>>
                  THEN IF str_in(<<"y","e","a","r">>, pattern.src)
                       THEN Some(int_of(matches[1]) * 12)
                       ELSE Some(int_of(matches[1]))
                  ELSE duration_months_first(s, k + 1)
                  : matches \in {re_findall(pattern, s, TRUE)}} : TRUE

\* the for loop of extract_duration from pattern k on
RECURSIVE duration_from(_, _)
duration_from(s, k) ==
    IF k > Len(DurationPatterns) THEN None
    ELSE LET pattern == DurationPatterns[k]
         IN  CHOOSE result \in
                 {IF matches # <<>>
                  THEN LET duration == int_of(matches[1])
                       IN  IF str_in(<<"y","e","a","r">>, pattern.src)
                           THEN Some(duration * 12)
                           ELSE Some(duration)
                  ELSE duration_from(s, k + 1)
                  : matches \in {re_findall(pattern, s, TRUE)}} : TRUE

extract_duration(s) == duration_from(s, 1)

(***************************************************************************)
(* extract_contract_value                                                  *)
(***************************************************************************)
w_million == <<"m","i","l","l","i","o","n">>
w_billion == <<"b","i","l","l","i","o","n">>
w_thousand == <<"t","h","o","u","s","a","n","d">>
w_contract == <<"c","o","n","t","r","a","c","t">>
ValuePatterns ==
    LET \* the source text of the pieces the nine patterns are written with
        src_dollar == <<"\\","$","\\","s","*">>                  \* \$\s*
        src_number == <<"(","\\","d","+","(","?",":",",","\\","d","{","3","}",")","*",
                        "(","?",":","\\",".","\\","d","+",")","?",")">>
                                                                 \* (\d+(?:,\d{3})*(?:\.\d+)?)
        src_ws_star == <<"\\","s","*">>                          \* \s*
        src_ws_plus == <<"\\","s","+">>                          \* \s+
        src_wb == <<"\\","b">>                                   \* \b
        w_worth == <<"w","o","r","t","h">>
        w_value == <<"v","a","l","u","e">>
        w_of == <<"o","f">>
        w_for == <<"f","o","r">>
        \* \d+(?:,\d{3})*(?:\.\d+)?
        Number == Cat(<<Plus(Dgt), Star(Cat(<<Chr(","), Rep(Dgt, 3, 3)>>)),
                        Opt(Cat(<<Chr("."), Plus(Dgt)>>))>>)
        Dollar == Cat(<<Chr("$"), Star(Wsp)>>)
    IN  <<
    \* \$\s*(\d+(?:,\d{3})*(?:\.\d+)?)\s*million
    Pattern(src_dollar \o src_number \o src_ws_star \o w_million,
            Dollar, Number, Cat(<<Star(Wsp), Lit(w_million)>>)),
    \* \$\s*(\d+(?:,\d{3})*(?:\.\d+)?)\s*m\b
    Pattern(src_dollar \o src_number \o src_ws_star \o <<"m">> \o src_wb,
            Dollar, Number, Cat(<<Star(Wsp), Chr("m"), WordBoundary>>)),
    \* \$\s*(\d+(?:,\d{3})*(?:\.\d+)?)\s*billion
    Pattern(src_dollar \o src_number \o src_ws_star \o w_billion,
            Dollar, Number, Cat(<<Star(Wsp), Lit(w_billion)>>)),
    \* \$\s*(\d+(?:,\d{3})*(?:\.\d+)?)\s*b\b
    Pattern(src_dollar \o src_number \o src_ws_star \o <<"b">> \o src_wb,
            Dollar, Number, Cat(<<Star(Wsp), Chr("b"), WordBoundary>>)),
    \* \$\s*(\d+(?:,\d{3})*(?:\.\d+)?)\s*thousand
    Pattern(src_dollar \o src_number \o src_ws_star \o w_thousand,
            Dollar, Number, Cat(<<Star(Wsp), Lit(w_thousand)>>)),
    \* \$\s*(\d+(?:,\d{3})*(?:\.\d+)?)\s*k\b
    Pattern(src_dollar \o src_number \o src_ws_star \o <<"k">> \o src_wb,
            Dollar, Number, Cat(<<Star(Wsp), Chr("k"), WordBoundary>>)),
    \* worth\s+\$\s*(\d+(?:,\d{3})*(?:\.\d+)?)
    Pattern(w_worth \o src_ws_plus \o src_dollar \o src_number,
            Cat(<<Lit(w_worth), Plus(Wsp), Dollar>>), Number, Empty),
    \* value\s+of\s+\$\s*(\d+(?:,\d{3})*(?:\.\d+)?)
    Pattern(w_value \o src_ws_plus \o w_of \o src_ws_plus \o src_dollar \o src_number,
            Cat(<<Lit(w_value), Plus(Wsp), Lit(w_of), Plus(Wsp), Dollar>>), Number, Empty),
    \* contract\s+for\s+\$\s*(\d+(?:,\d{3})*(?:\.\d+)?)
    Pattern(w_contract \o src_ws_plus \o w_for \o src_ws_plus \o src_dollar \o src_number,
            Cat(<<Lit(w_contract), Plus(Wsp), Lit(w_for), Plus(Wsp), Dollar>>), Number, Empty) >>

\* A float is kept exactly, as mant * 10^exp with mant not a multiple of 10
\* (0 is 0 * 10^0): the values the extractor computes are decimal fractions.
RECURSIVE Dec(_, _)
Dec(m, e) == IF m = 0 THEN [mant |-> 0, exp |-> 0]
             ELSE IF m % 10 = 0 THEN Dec(m \div 10, e + 1)
             ELSE [mant |-> m, exp |-> e]
dec_scale(v, k) == Dec(v.mant, v.exp + k)      \* v * 10^k (k < 0: a division)

\* str.replace(c, '')
str_remove(s, c) == SelectSeq(s, LAMBDA x : x # c)

\* float(str) of digits with an optional fraction
float_of(str) ==
    LET dot == {i \in 1..Len(str) : str[i] = "."}
        frac == IF dot = {} THEN 0 ELSE Len(str) - (CHOOSE i \in dot : TRUE)
    IN  Dec(int_of(str_remove(str, ".")), 0 - frac)

\* extract_contract_value taking an amount without a unit word for thousands
value_in_thousands(s, k) ==
    IF \E j \in 1..Len(ValuePatterns) : re_findall(ValuePatterns[j], s, TRUE) # <<>>
    THEN LET first == CHOOSE j \in 1..Len(ValuePatterns) :
                          /\ re_findall(ValuePatterns[j], s, TRUE) # <<>>
                          /\ \A i \in 1..(j - 1) : re_findall(ValuePatterns[i], s, TRUE) = <<>>
             value == float_of(str_remove(re_findall(ValuePatterns[first], s, TRUE)[1], ","))
         IN  IF first \in {1} THEN Some(value)
             ELSE IF first \in {3} THEN Some(dec_scale(value, 3))
             ELSE IF first \in {5} THEN Some(dec_scale(value, -3))
             ELSE IF first \in {2, 4, 6} THEN Some(dec_scale(value, -6))
             ELSE Some(dec_scale(value, -3))
    ELSE None

\* the for loop of extract_contract_value from pattern k on
RECURSIVE value_from(_, _)
value_from(s, k) ==
    IF k > Len(ValuePatterns) THEN None
    ELSE LET pattern == ValuePatterns[k]
         IN  CHOOSE result \in
                 {IF matches # <<>>
                  THEN LET value_str == str_remove(matches[1], ",")
                           value == float_of(value_str)
                       IN  IF str_in(w_million, pattern.src)
                              \/ str_in(<<" ","m","\\","b">>, pattern.src)
                           THEN Some(value)
                           ELSE IF str_in(w_billion, pattern.src)
                                   \/ str_in(<<" ","b","\\","b">>, pattern.src)
                           THEN Some(dec_scale(value, 3))
                           ELSE IF str_in(w_thousand, pattern.src)
                                   \/ str_in(<<" ","k","\\","b">>, pattern.src)
                           THEN Some(dec_scale(value, -3))
                           ELSE Some(dec_scale(value, -6))
                  ELSE value_from(s, k + 1)
                  : matches \in {re_findall(pattern, s, TRUE)}} : TRUE

extract_contract_value(s) == value_from(s, 1)

(***************************************************************************)
(* extract_organizations                                                   *)
(***************************************************************************)
OrganizationPatterns ==
    LET OptDot == Opt(Chr("."))                                        \* \.?
        NameHead == Cls(UpperLetters)                                  \* [A-Z]
        NameBody == Plus(Cls(LowerLetters \cup UpperLetters \cup Whitespace \cup {"&"}))
                                                                       \* [a-zA-Z\s&]+
    IN  <<
    \* \b([A-Z][a-zA-Z\s&]+(?:Inc\.?|Corp\.?|Corporation|Company|Co\.?|Ltd\.?|Limited
    \*    |LLC|Group|Solutions|Systems|Technologies|Services))\b
    Pattern(<<>>, WordBoundary,
            Cat(<<NameHead, NameBody,
                  Alt(<<Cat(<<Lit(<<"I","n","c">>), OptDot>>),
                        Cat(<<Lit(<<"C","o","r","p">>), OptDot>>),
                        Lit(<<"C","o","r","p","o","r","a","t","i","o","n">>),
                        Lit(<<"C","o","m","p","a","n","y">>),
                        Cat(<<Lit(<<"C","o">>), OptDot>>),
                        Cat(<<Lit(<<"L","t","d">>), OptDot>>),
                        Lit(<<"L","i","m","i","t","e","d">>),
                        Lit(<<"L","L","C">>),
                        Lit(<<"G","r","o","u","p">>),
                        Lit(<<"S","o","l","u","t","i","o","n","s">>),
                        Lit(<<"S","y","s","t","e","m","s">>),
                        Lit(<<"T","e","c","h","n","o","l","o","g","i","e","s">>),
                        Lit(<<"S","e","r","v","i","c","e","s">>)>>)>>),
            WordBoundary),
    \* \b([A-Z][a-zA-Z\s&]+ (?:Inc|Corp|Corporation|Company|Co|Ltd|Limited|LLC|Group
    \*    |Solutions|Systems|Technologies|Services))\b
    Pattern(<<>>, WordBoundary,
            Cat(<<NameHead, NameBody, Chr(" "),
                  Alt(<<Lit(<<"I","n","c">>),
                        Lit(<<"C","o","r","p">>),
                        Lit(<<"C","o","r","p","o","r","a","t","i","o","n">>),
                        Lit(<<"C","o","m","p","a","n","y">>),
                        Lit(<<"C","o">>),
                        Lit(<<"L","t","d">>),
                        Lit(<<"L","i","m","i","t","e","d">>),
                        Lit(<<"L","L","C">>),
                        Lit(<<"G","r","o","u","p">>),
                        Lit(<<"S","o","l","u","t","i","o","n","s">>),
                        Lit(<<"S","y","s","t","e","m","s">>),
                        Lit(<<"T","e","c","h","n","o","l","o","g","i","e","s">>),
                        Lit(<<"S","e","r","v","i","c","e","s">>)>>)>>),
            WordBoundary) >>

\* str.strip()
str_strip(s) ==
    LET solid == {i \in 1..Len(s) : s[i] \notin Whitespace}
    IN  IF solid = {} THEN <<>>
        ELSE SubSeq(s, CHOOSE i \in solid : \A j \in solid : i <= j,
                       CHOOSE i \in solid : \A j \in solid : i >= j)

\* the inner for loop appending every match, in the list already or not
RECURSIVE append_orgs_again(_, _, _)
append_orgs_again(organizations, matches, j) ==
    IF j > Len(matches) THEN organizations
    ELSE CHOOSE result \in
        {append_orgs_again(appended, matches, j + 1)
         : appended \in {IF Len(org) > 5
                         THEN Append(organizations, org)
                         ELSE organizations
                         : org \in {str_strip(matches[j])}}} : TRUE

\* the inner for loop: the matches of one pattern appended to organizations
RECURSIVE append_orgs(_, _, _)
append_orgs(organizations, matches, j) ==
    IF j > Len(matches) THEN organizations
    ELSE CHOOSE result \in
        {append_orgs(appended, matches, j + 1)
         : appended \in {IF Len(org) > 5 /\ (\A i \in 1..Len(organizations) : organizations[i] # org)
                         THEN Append(organizations, org)
                         ELSE organizations
                         : org \in {str_strip(matches[j])}}} : TRUE

\* the outer for loop from pattern k on
RECURSIVE orgs_from(_, _, _)
orgs_from(organizations, s, k) ==
    IF k > Len(OrganizationPatterns) THEN organizations
    ELSE CHOOSE result \in
        {orgs_from(appended, s, k + 1)
         : appended \in {append_orgs(organizations, matches, 1)
                         : matches \in {re_findall(OrganizationPatterns[k], s, TRUE)}}} : TRUE

\* list[:n] for n >= 0
seq_take(list, n) == SubSeq(list, 1, IF n < Len(list) THEN n ELSE Len(list))

extract_organizations(s) == seq_take(orgs_from(<<>>, s, 1), 5)

(***************************************************************************)
(* extract_service_type                                                    *)
(***************************************************************************)
SERVICE_TYPES == <<
    <<"m","o","d","e","r","n","i","z","a","t","i","o","n">>,
    <<"c","l","o","u","d">>,
    <<"m","i","g","r","a","t","i","o","n">>,
    <<"c","y","b","e","r","s","e","c","u","r","i","t","y">>,
    <<"A","I">>,
    <<"d","a","t","a">>,
    <<"i","n","f","r","a","s","t","r","u","c","t","u","r","e">>,
    <<"a","p","p","l","i","c","a","t","i","o","n"," ",
      "d","e","v","e","l","o","p","m","e","n","t">>,
    <<"t","e","s","t","i","n","g">>,
    <<"B","P","O">>,
    <<"m","a","n","a","g","e","d"," ","s","e","r","v","i","c","e","s">>,
    <<"c","o","n","s","u","l","t","i","n","g">>,
    <<"n","e","t","w","o","r","k">> >>

RECURSIVE service_from(_, _)
service_from(text_lower, k) ==
    IF k > Len(SERVICE_TYPES) THEN None
    ELSE IF str_in(SERVICE_TYPES[k], text_lower) THEN Some(SERVICE_TYPES[k])
    ELSE service_from(text_lower, k + 1)

\* extract_service_type matching the text as it is written
extract_service_type_cased(s) == service_from(s, 1)

extract_service_type(s) ==
    CHOOSE result \in {service_from(text_lower, 1) : text_lower \in {str_lower(s)}} : TRUE

(***************************************************************************)
(* generate_summary                                                        *)
(***************************************************************************)
NoSummary == <<"N","o"," ","s","u","m","m","a","r","y"," ",
               "a","v","a","i","l","a","b","l","e">>
Ellipsis == <<".",".",".">>
SentenceEnd == {".", "!", "?"}
MinSentenceLen == 20
ScoredSentences == 10
SummaryLimit == 500

keywords == << w_contract,
               <<"a","g","r","e","e","m","e","n","t">>,
               <<"a","w","a","r","d">>,
               w_million,
               <<"s","e","r","v","i","c","e","s">>,
               <<"c","o","m","p","a","n","y">>,
               <<"a","n","n","o","u","n","c","e","d">> >>

\* re.split(r'[.!?]+', s) from position pos on: the pieces between the
\* maximal runs of sentence-ending characters
RECURSIVE split_sentences(_, _)
split_sentences(s, pos) ==
    LET stops == {i \in pos..Len(s) : s[i] \in SentenceEnd}
    IN  IF stops = {} THEN <<SubSeq(s, pos, Len(s))>>
        ELSE LET a == min_of(stops)
                 b == min_of({j \in a..Len(s) : j = Len(s) \/ s[j + 1] \notin SentenceEnd})
             IN  <<SubSeq(s, pos, a - 1)>> \o split_sentences(s, b + 1)

\* sum(1 for keyword in keywords if keyword.lower() in sentence.lower())
score_of(sentence) ==
    Cardinality({k \in 1..Len(keywords) :
                    \E lower \in {str_lower(sentence)} : str_in(str_lower(keywords[k]), lower)})

\* list.sort(key=score, reverse=True): stable, so equal scores keep their order
RECURSIVE sort_by_score(_)
sort_by_score(scored) ==
    IF scored = <<>> THEN <<>>
    ELSE LET best == min_of({i \in 1..Len(scored) :
                               \A j \in 1..Len(scored) : scored[j][1] <= scored[i][1]})
         IN  CHOOSE sorted \in
                 {<<scored[best]>> \o sort_by_score(rest)
                  : rest \in {SubSeq(scored, 1, best - 1)
                              \o SubSeq(scored, best + 1, Len(scored))}} : TRUE

\* list[:n], n of either sign
seq_slice_to(list, n) ==
    IF n >= 0 THEN seq_take(list, n)
    ELSE seq_take(list, IF Len(list) + n > 0 THEN Len(list) + n ELSE 0)

\* sep.join(list)
RECURSIVE str_join(_, _)
str_join(sep, list) ==
    IF list = <<>> THEN <<>>
    ELSE IF Len(list) = 1 THEN list[1]
    ELSE list[1] \o sep \o str_join(sep, Tail(list))

\* generate_summary without the cut at 500 characters
generate_summary_uncut(s, max_sentences) ==
    IF s = <<>> THEN NoSummary
    ELSE CHOOSE result \in
        {IF sentences = <<>> THEN NoSummary
         ELSE CHOOSE text_out \in
             {str_join(<<".", " ">>, [i \in 1..Len(top) |-> top[i][2]])
              : top \in
                  {seq_slice_to(sort_by_score(scored_sentences), max_sentences)
                   : scored_sentences \in
                       {[i \in 1..Len(first) |-> <<score_of(first[i]), first[i]>>]
                        : first \in {seq_take(sentences, ScoredSentences)}}}} : TRUE
         : sentences \in
             {SelectSeq([i \in 1..Len(pieces) |-> str_strip(pieces[i])],
                        LAMBDA x : Len(x) > MinSentenceLen)
              : pieces \in {split_sentences(s, 1)}}} : TRUE

generate_summary(s, max_sentences) ==
    IF s = <<>> THEN NoSummary
    ELSE CHOOSE result \in
        {IF sentences = <<>> THEN NoSummary
         ELSE CHOOSE text_out \in
             {IF Len(summary) > SummaryLimit
              THEN SubSeq(summary, 1, SummaryLimit) \o Ellipsis
              ELSE summary
              : summary \in
                  {str_join(<<".", " ">>, [i \in 1..Len(top) |-> top[i][2]])
                   : top \in
                       {seq_slice_to(sort_by_score(scored_sentences), max_sentences)
                        : scored_sentences \in
                            {[i \in 1..Len(first) |-> <<score_of(first[i]), first[i]>>]
                             : first \in {seq_take(sentences, ScoredSentences)}}}}} : TRUE
         : sentences \in
             {SelectSeq([i \in 1..Len(pieces) |-> str_strip(pieces[i])],
                        LAMBDA x : Len(x) > MinSentenceLen)
              : pieces \in {split_sentences(s, 1)}}} : TRUE

(***************************************************************************)
(* The parsed page (BeautifulSoup) and extract_publication_date            *)
(*                                                                         *)
(* A soup is the sequence of the page's elements in document order; an     *)
(* element has a tag, attributes and the text inside it.                   *)
(***************************************************************************)
Element(tag, attrs, txt) == [tag |-> tag, attrs |-> attrs, text |-> txt]
\* the attributes the code reads, each absent (None) or present (Some(string))
NoAttrs == [property |-> None, name |-> None, content |-> None, datetime |-> None]

\* element.get(k): the attribute's value, or None (here the empty string: both falsy)
attr_get(e, k) == IF e.attrs[k] # None THEN e.attrs[k][1] ELSE <<>>

\* a selector: a tag and one attribute, with a required value or (any) just present
Selector(tag, key, val) == [tag |-> tag, key |-> key, val |-> val, any |-> FALSE]
SelectorHas(tag, key) == [tag |-> tag, key |-> key, val |-> <<>>, any |-> TRUE]

selects(sel, e) ==
    /\ e.tag = sel.tag
    /\ e.attrs[sel.key] # None
    /\ sel.any \/ e.attrs[sel.key] = Some(sel.val)

\* soup.find(tag, attrs): the first such element in document order, if any
soup_find(soup, sel) ==
    LET hits == {i \in 1..Len(soup) : selects(sel, soup[i])}
    IN  IF hits = {} THEN None ELSE Some(soup[min_of(hits)])

\* soup.find('title')
soup_find_tag(soup, tag) ==
    LET hits == {i \in 1..Len(soup) : soup[i].tag = tag}
    IN  IF hits = {} THEN None ELSE Some(soup[min_of(hits)])

\* soup.get_text(): the strings of the tree, joined; scripts says whether the
\* strings inside <script> and <style> count
ScriptTags == {"script", "style"}
get_text(soup, scripts) ==
    Flatten([i \in 1..Len(soup) |->
                IF soup[i].tag \in ScriptTags /\ ~scripts THEN <<>> ELSE soup[i].text])

\* for script in soup(["script", "style"]): script.decompose()
decompose_scripts(soup) == SelectSeq(soup, LAMBDA e : e.tag \notin ScriptTags)

date_selectors == <<
    Selector("meta", "property", <<"a","r","t","i","c","l","e",":","p","u","b","l","i","s","h","e","d",
                                   "_","t","i","m","e">>),
    Selector("meta", "name", <<"p","u","b","l","i","s","h","d","a","t","e">>),
    Selector("meta", "name", <<"p","u","b","l","i","c","a","t","i","o","n","-","d","a","t","e">>),
    Selector("meta", "name", <<"d","a","t","e">>),
    Selector("meta", "property", <<"o","g",":","p","u","b","l","i","s","h","e","d","_","t","i","m","e">>),
    SelectorHas("time", "datetime") >>

\* str.split('T')[0]
before_T(s) ==
    LET ts == {i \in 1..Len(s) : s[i] = "T"}
    IN  IF ts = {} THEN s ELSE SubSeq(s, 1, min_of(ts) - 1)

\* the regular expression datetime.strptime builds for '%Y-%m-%d':
\* (\d\d\d\d)-(1[0-2]|0[1-9]|[1-9])-(3[01]|[12]\d|0[1-9]|[1-9]| [1-9])
YmdPattern ==
    LET NonZero == Cls(Digits \ {"0"})
    IN
    Pattern(<<>>,
            Cat(<<Rep(Dgt, 4, 4), Chr("-")>>),
            Alt(<<Cat(<<Chr("1"), Cls({"0","1","2"})>>), Cat(<<Chr("0"), NonZero>>), NonZero>>),
            Cat(<<Chr("-"),
                  Alt(<<Cat(<<Chr("3"), Cls({"0","1"})>>), Cat(<<Cls({"1","2"}), Dgt>>),
                        Cat(<<Chr("0"), NonZero>>), NonZero, Cat(<<Chr(" "), NonZero>>)>>)>>))

days_in_month(y, m) ==
    IF m = 2 THEN (IF (y % 4 = 0 /\ y % 100 # 0) \/ y % 400 = 0 THEN 29 ELSE 28)
    ELSE IF m \in {4, 6, 9, 11} THEN 30 ELSE 31

\* datetime.strptime(s, '%Y-%m-%d'): the date <<y, m, d>>, or None for ValueError
strptime_ymd(s) ==
    CHOOSE parsed \in
        {IF m = <<>> \/ m[3] # Len(s) + 1 THEN None     \* no match, or data remains
         ELSE LET y == int_of(SubSeq(s, 1, 4))
                  mo == int_of(SubSeq(s, m[1], m[2] - 1))
                  d == int_of(str_remove(SubSeq(s, m[2] + 1, m[3] - 1), " "))
              IN  IF y >= 1 /\ d <= days_in_month(y, mo) THEN Some(<<y, mo, d>>) ELSE None
         : m \in {match_at(YmdPattern, s, 1, TRUE)}} : TRUE

\* the decimal digits of n, zero-padded to width w
RECURSIVE zero_pad(_, _)
zero_pad(n, w) == IF w = 0 THEN <<>> ELSE zero_pad(n \div 10, w - 1) \o <<DigitSeq[(n % 10) + 1]>>

\* date.strftime('%Y-%m-%d')
strftime_ymd(d) == zero_pad(d[1], 4) \o <<"-">> \o zero_pad(d[2], 2) \o <<"-">> \o zero_pad(d[3], 2)

date_patterns == <<
    \* (\w+ \d{1,2}, \d{4})
    Pattern(<<>>, Empty,
            Cat(<<Plus(Cls(WordChars)), Chr(" "), Rep(Dgt, 1, 2), Chr(","), Chr(" "), Rep(Dgt, 4, 4)>>),
            Empty),
    \* (\d{1,2}/\d{1,2}/\d{4})
    Pattern(<<>>, Empty,
            Cat(<<Rep(Dgt, 1, 2), Chr("/"), Rep(Dgt, 1, 2), Chr("/"), Rep(Dgt, 4, 4)>>),
            Empty),
    \* (\d{4}-\d{2}-\d{2})
    Pattern(<<>>, Empty,
            Cat(<<Rep(Dgt, 4, 4), Chr("-"), Rep(Dgt, 2, 2), Chr("-"), Rep(Dgt, 2, 2)>>),
            Empty) >>

\* a or b or c on strings: the first that is not empty, else the last
py_or3(a, b, c) == IF a # <<>> THEN a ELSE IF b # <<>> THEN b ELSE c

\* the second loop without its patterns: today's date whatever the text holds
date_in_text_today(txt, k, now) == strftime_ymd(now)

\* the second loop: the free-text patterns from pattern k on, then today
RECURSIVE date_in_text(_, _, _)
date_in_text(txt, k, now) ==
    IF k > Len(date_patterns) THEN strftime_ymd(now)
    ELSE LET matches == re_findall(date_patterns[k], txt, FALSE)
         IN  IF matches # <<>> THEN matches[1] ELSE date_in_text(txt, k + 1, now)

\* lines 129-139, one round of the first loop: the date that the carrier of
\* selector k gives, None when the page has no such element, when the
\* element's value is empty or when the value does not parse
carrier_date(soup, k) ==
    LET element == soup_find(soup, date_selectors[k])
    IN  IF element = None THEN None
        ELSE CHOOSE parsed \in
            {IF date_str = <<>> THEN None ELSE strptime_ymd(before_T(date_str))
             : date_str \in {py_or3(attr_get(element[1], "content"),
                                    attr_get(element[1], "datetime"),
                                    element[1].text)}} : TRUE

\* extract_publication_date reading only the first carrier that the page has
RECURSIVE date_of_first_carrier(_, _, _, _)
date_of_first_carrier(soup, k, now, scripts) ==
    IF k > Len(date_selectors)
    THEN CHOOSE date \in {date_in_text(txt, 1, now) : txt \in {get_text(soup, scripts)}} : TRUE
    ELSE IF carrier_date(soup, k) # None THEN strftime_ymd(carrier_date(soup, k)[1])
    ELSE IF soup_find(soup, date_selectors[k]) # None
    THEN date_of_first_carrier(soup, Len(date_selectors) + 1, now, scripts)
    ELSE date_of_first_carrier(soup, k + 1, now, scripts)

\* the first loop: the metadata selectors from selector k on
RECURSIVE date_from(_, _, _, _)
date_from(soup, k, now, scripts) ==
    IF k > Len(date_selectors)
    THEN CHOOSE date \in {date_in_text(txt, 1, now) : txt \in {get_text(soup, scripts)}} : TRUE
    ELSE CHOOSE date \in
        {IF parsed # None THEN strftime_ymd(parsed[1])
         ELSE date_from(soup, k + 1, now, scripts)
         : parsed \in {carrier_date(soup, k)}} : TRUE

\* now is what datetime.now() returns during the call, scripts whether the
\* installed library's get_text() reads <script> and <style>
extract_publication_date(soup, now, scripts) == date_from(soup, 1, now, scripts)

(***************************************************************************)
(* fetch_page_content and process_contract_page                            *)
(***************************************************************************)
\* What requests.get(url) gives: an exception (a network error, a timeout, an
\* HTTP error status from raise_for_status), or a page, here already parsed.
FetchError == [ok |-> FALSE, soup |-> <<>>]
Page(soup) == [ok |-> TRUE, soup |-> soup]

\* str.split(sep) from position pos on
RECURSIVE str_split(_, _, _)
str_split(s, sep, pos) ==
    LET hits == {i \in pos..(Len(s) - Len(sep) + 1) : SubSeq(s, i, i + Len(sep) - 1) = sep}
    IN  IF hits = {} THEN <<SubSeq(s, pos, Len(s))>>
        ELSE <<SubSeq(s, pos, min_of(hits) - 1)>> \o str_split(s, sep, min_of(hits) + Len(sep))

\* lines 103-105: strip every line, split it on double spaces, strip the
\* phrases, join the non-empty ones with single spaces
clean_text(txt) ==
    CHOOSE cleaned \in
        {str_join(<<" ">>, SelectSeq([i \in 1..Len(phrases) |-> str_strip(phrases[i])],
                                     LAMBDA c : c # <<>>))
         : phrases \in
             {Flatten([i \in 1..Len(raw) |-> str_split(str_strip(raw[i]), <<" ", " ">>, 1)])
              : raw \in {str_split(txt, <<"\n">>, 1)}}} : TRUE

NoTitle == <<"N","o"," ","t","i","t","l","e"," ","f","o","u","n","d">>

fetch_page_content(response, now, scripts) ==
    IF ~response.ok THEN None                       \* except Exception: return None
    ELSE LET soup == response.soup
             title == soup_find_tag(soup, "title")
             title_text == IF title # None THEN str_strip(title[1].text) ELSE NoTitle
             pub_date == extract_publication_date(soup, now, scripts)
             body == decompose_scripts(soup)
             cleaned == clean_text(get_text(body, scripts))
         IN  Some([text |-> str_lower(cleaned), original_text |-> cleaned,
                   title |-> title_text, publication_date |-> pub_date])

\* lines 283-302: the record built from the content of a page
contract_info(url, content_data) ==
    LET content == content_data.text
        original_text == content_data.original_text
    IN  CHOOSE info \in
            {[URL |-> url,
              Title |-> content_data.title,
              AnnouncementDate |-> content_data.publication_date,
              Summary |-> generate_summary(original_text, 3),
              EstimatedValue |-> extract_contract_value(content),
              Vendor |-> IF Len(organizations) > 0 THEN Some(organizations[1]) ELSE None,
              Client |-> IF Len(organizations) > 1 THEN Some(organizations[2]) ELSE None,
              ContractDuration |-> extract_duration(content),
              ServiceType |-> extract_service_type(content)]
             : organizations \in {extract_organizations(original_text)}} : TRUE

\* process_page with the gate reading the text in its original case
process_page_cased(url, response, now, scripts) ==
    CHOOSE result \in
        {IF content_data = None THEN None
         ELSE IF ~str_in(w_contract, content_data[1].original_text) THEN None
         ELSE Some(contract_info(url, content_data[1]))
         : content_data \in {fetch_page_content(response, now, scripts)}} : TRUE

\* process_contract_page(url), given what fetching url gives
process_page(url, response, now, scripts) ==
    CHOOSE result \in
        {IF content_data = None THEN None
         ELSE IF ~str_in(w_contract, content_data[1].text) THEN None
         ELSE Some(contract_info(url, content_data[1]))
         : content_data \in {fetch_page_content(response, now, scripts)}} : TRUE

process_contract_page(url) == process_page(url, web[url], today, old_bs4)

(***************************************************************************)
(* Inputs of the duration extractor                                        *)
(***************************************************************************)
MaxDurTokens == 3

DurLexicon == {
    <<"2">>, <<"1","8">>, <<" ">>, <<"-">>,
    <<"y","e","a","r">>, <<"m","o","n","t","h","s">>,
    <<"t","e","r","m"," ","o","f"," ">> }

RECURSIVE TokenSeqs(_, _)
TokenSeqs(lex, n) ==
    IF n = 0 THEN {<<>>}
    ELSE LET shorter == TokenSeqs(lex, n - 1)
         IN  shorter \cup {ts \o <<w>> : ts \in {t \in shorter : Len(t) = n - 1}, w \in lex}

TextsOver(lex, n) == {Flatten(ts) : ts \in TokenSeqs(lex, n)}

(***************************************************************************)
(* Inputs of the value extractor                                           *)
(***************************************************************************)
MaxValueTokens == 3

ValueLexicon == {
    <<"$","5">>, <<"$","2",",","5","0","0",",","0","0","0">>,
    <<" ">>, w_million, <<"m">>, w_billion, w_thousand,
    <<"w","o","r","t","h"," ">>, <<"v","a","l","u","e"," ","o","f"," ">>,
    w_contract \o <<" ","f","o","r"," ">> }

(***************************************************************************)
(* Inputs of the organization extractor                                    *)
(***************************************************************************)
MaxOrgTokens == 3

OrgLexicon == {
    <<"A","c","m","e">>, <<" ">>, <<".">>,
    <<"I","n","c">>, <<"L","L","C">>, <<"s","i","g","n","e","d">>,
    <<"A","c","m","e"," ","I","n","c",","," ">> }

(***************************************************************************)
(* Inputs of the service type classifier                                   *)
(***************************************************************************)
MaxServiceTokens == 3

ServiceLexicon == {
    SERVICE_TYPES[2], SERVICE_TYPES[3], SERVICE_TYPES[5], SERVICE_TYPES[10],
    <<"a","i">>, <<" ">>, <<"s","e","r","v","i","c","e","s">> }

(***************************************************************************)
(* Inputs of the summarizer                                                *)
(***************************************************************************)
MaxSummaryTokens == 3
MaxSentencesArg == 3

Filler(c, n) == [i \in 1..n |-> c]

SummaryLexicon == {
    <<"S","h","o","r","t",".", " ">>,
    <<"T","h","e"," ">> \o <<"c","o","m","p","a","n","y"," ">>
        \o <<"a","n","n","o","u","n","c","e","d"," ","a"," ">> \o w_contract \o <<"!"," ">>,
    <<"A","n"," ","a","g","r","e","e","m","e","n","t"," ","w","a","s"," ",
      "s","i","g","n","e","d"," ","t","o","d","a","y","?","!"," ">>,
    <<"A","w","a","r","d"," ">> \o Filler("x", 260) \o <<".", " ">> }

\* the texts the documentation of the extractors gives as examples, and texts
\* longer than the lexicons reach
Examples == [
    \* "a 2-year contract"
    two_year |-> <<"a"," ","2","-","y","e","a","r"," ","c","o","n","t","r","a","c","t">>,
    \* "term of 18 months"
    term_18 |-> <<"t","e","r","m"," ","o","f"," ","1","8"," ","m","o","n","t","h","s">>,
    \* "6 months then 2 years"
    months_then_years |->
        <<"6"," ","m","o","n","t","h","s"," ","t","h","e","n"," ","2"," ","y","e","a","r","s">>,
    \* "term of 3 years and 5 years"
    term_then_years |->
        <<"t","e","r","m"," ","o","f"," ","3"," ","y","e","a","r","s"," ","a","n","d"," ",
          "5"," ","y","e","a","r","s">>,
    \* "$2,500,000 contract for services"
    bare_dollar |->
        <<"$","2",",","5","0","0",",","0","0","0"," ">> \o w_contract
        \o <<" ","f","o","r"," ","s","e","r","v","i","c","e","s">>,
    \* "Acme Solutions Inc. signed with Beta Systems LLC"
    orgs |->
        <<"A","c","m","e"," ","S","o","l","u","t","i","o","n","s"," ","I","n","c","."," ",
          "s","i","g","n","e","d"," ","w","i","t","h"," ",
          "B","e","t","a"," ","S","y","s","t","e","m","s"," ","L","L","C">>,
    \* six organizations, to have the list cut to five
    six_orgs |->
        <<"A","c","m","e"," ","I","n","c",","," ","B","e","t","a"," ","L","L","C",","," ",
          "G","a","m","a"," ","L","t","d",","," ","D","e","l","t","a"," ","C","o",","," ",
          "Z","e","t","a"," ","C","o","r","p",","," ","I","o","t","a"," ","G","r","o","u","p">>,
    \* "this is a cloud migration project"
    cloud_migration |->
        <<"t","h","i","s"," ","i","s"," ","a"," ","c","l","o","u","d"," ",
          "m","i","g","r","a","t","i","o","n"," ","p","r","o","j","e","c","t">>,
    \* twelve sentences: only the first ten are scored
    twelve_sentences |->
        Flatten([i \in 1..12 |->
                    IF i = 11 THEN <<"T","h","e"," ","c","o","n","t","r","a","c","t"," ",
                                     "a","w","a","r","d"," ","i","s"," ","l","a","t","e",".">>
                    ELSE Filler(DigitSeq[(i % 10) + 1], 21) \o <<".">>]) ]

\* the inputs each extractor is called with
Inputs == [
    extract_duration |->
        TextsOver(DurLexicon, MaxDurTokens)
        \cup {Examples.two_year, Examples.term_18, Examples.months_then_years,
              Examples.term_then_years},
    extract_contract_value |->
        TextsOver(ValueLexicon, MaxValueTokens) \cup {Examples.bare_dollar},
    extract_organizations |->
        TextsOver(OrgLexicon, MaxOrgTokens) \cup {Examples.orgs, Examples.six_orgs},
    extract_service_type |->
        TextsOver(ServiceLexicon, MaxServiceTokens) \cup {Examples.cloud_migration},
    generate_summary |->
        TextsOver(SummaryLexicon, MaxSummaryTokens) \cup {Examples.twelve_sentences} ]

InitExtractor ==
    /\ NoRun
    /\ today = Day0 /\ old_bs4 = FALSE /\ web = <<>>
    /\ pc = "call"
    /\ fn \in DOMAIN Inputs
    /\ text \in Inputs[fn]
    /\ arg \in IF fn = "generate_summary" THEN -1..MaxSentencesArg ELSE {0}
    /\ out = None

CallExtractor ==
    /\ pc = "call"
    /\ out' = CASE fn = "extract_duration" -> extract_duration(text)
               [] fn = "extract_contract_value" -> extract_contract_value(text)
               [] fn = "extract_organizations" -> extract_organizations(text)
               [] fn = "extract_service_type" -> extract_service_type(text)
               [] fn = "generate_summary" -> generate_summary(text, arg)
    /\ pc' = "done"
    /\ UNCHANGED <<fn, text, arg, env, run, saved_urls>>

SpecExtractor == InitExtractor /\ [][CallExtractor]_vars

(***************************************************************************)
(* Inputs of the date resolver                                             *)
(***************************************************************************)
MaxDateElements == 3

Meta(key, val, content) ==
    Element("meta", [NoAttrs EXCEPT ![key] = Some(val), !.content = Some(content)], <<>>)
Par(txt) == Element("p", NoAttrs, txt)

DateLexicon == {
    \* <meta property="article:published_time" content="2024-01-15T10:00:00">
    Meta("property", date_selectors[1].val,
         <<"2","0","2","4","-","0","1","-","1","5","T","1","0",":","0","0",":","0","0">>),
    \* <meta property="article:published_time" content="Jan 15">
    Meta("property", date_selectors[1].val, <<"J","a","n"," ","1","5">>),
    \* <meta name="publishdate" content="2024-02-30">
    Meta("name", date_selectors[2].val, <<"2","0","2","4","-","0","2","-","3","0">>),
    \* <meta name="publication-date" content="">
    Meta("name", date_selectors[3].val, <<>>),
    \* <meta name="date" content="2024-2-9">
    Meta("name", date_selectors[4].val, <<"2","0","2","4","-","2","-","9">>),
    \* <time datetime="2022-06-01">June</time>
    Element("time", [NoAttrs EXCEPT !.datetime = Some(<<"2","0","2","2","-","0","6","-","0","1">>)],
            <<"J","u","n","e">>),
    Par(<<"S","i","g","n","e","d"," ","J","a","n","u","a","r","y"," ","1","5",","," ",
          "2","0","2","4"," ">>),
    Par(<<"o","n"," ","0","1","/","1","5","/","2","0","2","4"," ","o","r"," ",
          "2","0","2","1","-","0","5","-","0","5"," ">>),
    Element("script", NoAttrs, <<"v","=","'","2","0","1","9","-","1","2","-","3","1","'",";">>) }

InitDate ==
    /\ pc = "call"
    /\ fn = "extract_publication_date"
    /\ text \in TokenSeqs(DateLexicon, MaxDateElements)
    /\ arg = 0
    /\ out = None
    /\ today \in {Day0, Day1}
    /\ old_bs4 \in BOOLEAN
    /\ web = <<>>
    /\ NoRun

CallDate ==
    /\ pc = "call"
    /\ out' = extract_publication_date(text, today, old_bs4)
    /\ pc' = "done"
    /\ UNCHANGED <<fn, text, arg, env, run, saved_urls>>

SpecDate == InitDate /\ [][CallDate]_vars

(***************************************************************************)
(* Inputs of the page processor                                            *)
(***************************************************************************)
MaxPageElements == 2

\* "Acme Corp announces $5 million contract with Beta Inc for 12 months of cloud services"
FixtureText ==
    <<"A","c","m","e"," ","C","o","r","p"," ","a","n","n","o","u","n","c","e","s"," ",
      "$","5"," ","m","i","l","l","i","o","n"," ","c","o","n","t","r","a","c","t"," ",
      "w","i","t","h"," ","B","e","t","a"," ","I","n","c"," ","f","o","r"," ","1","2"," ",
      "m","o","n","t","h","s"," ","o","f"," ","c","l","o","u","d"," ",
      "s","e","r","v","i","c","e","s">>

TitleDeal == Element("title", NoAttrs, <<" ","I","T"," ","d","e","a","l","\n">>)
MetaJan15 == Meta("property", date_selectors[1].val,
                  <<"2","0","2","4","-","0","1","-","1","5","T","1","0",":","0","0",":","0","0">>)
\* a contract, with a value and an organization, and no date
ParWon == Par(<<"A","c","m","e"," ","C","o","r","p"," ","w","o","n"," ","a"," ",
                "$","5"," ","m","i","l","l","i","o","n"," ","c","o","n","t","r","a","c","t","."," ">>)
\* no "contract", but a value, a duration and a service type
ParDeal == Par(<<"\n"," "," ","D","e","a","l"," ","w","o","r","t","h"," ","$","3"," ",
                 "b","i","l","l","i","o","n"," ","f","o","r"," ","2"," ","y","e","a","r","s"," ",
                 "o","f"," ","d","a","t","a",".","\n">>)
\* "Contract" with a capital, and a date in free text
ParSigned == Par(<<"C","o","n","t","r","a","c","t"," ","s","i","g","n","e","d"," ",
                   "J","a","n","u","a","r","y"," ","1","5",","," ","2","0","2","4","."," "," ">>)
ScriptContract == Element("script", NoAttrs, <<"c","o","n","t","r","a","c","t","=","'",
                           "2","0","1","9","-","1","2","-","3","1","'",";">>)

PageLexicon == {TitleDeal, MetaJan15, ParWon, ParDeal, ParSigned, ScriptContract}

Responses ==
    {FetchError, Page(<<Par(FixtureText)>>)}
    \cup {Page(soup) : soup \in TokenSeqs(PageLexicon, MaxPageElements)}

TheUrl == "https://example.com/news"

InitPage ==
    /\ pc = "call"
    /\ fn = "process_contract_page"
    /\ text = TheUrl
    /\ arg = 0
    /\ out = None
    /\ today \in {Day0, Day1}
    /\ old_bs4 \in BOOLEAN
    /\ web \in {(TheUrl :> r) : r \in Responses}
    /\ NoRun

CallPage ==
    /\ pc = "call"
    /\ out' = process_contract_page(text)
    /\ pc' = "done"
    /\ UNCHANGED <<fn, text, arg, env, run, saved_urls>>

SpecPage == InitPage /\ [][CallPage]_vars

(***************************************************************************)
(* process_urls_with_date_filter                                           *)
(***************************************************************************)
MaxUrls == 2

\* the pages of the run
Catalog ==
    [u \in {"u1", "u2", "u3", "u4", "u5", "u6", "u7"} |->
        CASE u = "u1" -> Page(<<TitleDeal, MetaJan15, ParWon>>)   \* dated by its metadata
          [] u = "u2" -> Page(<<ParSigned, ParWon>>)              \* dated in free text
          [] u = "u3" -> Page(<<ParWon>>)                         \* no date at all
          [] u = "u4" -> Page(<<ParWon>>)                         \* the same page again
          [] u = "u5" -> FetchError
          [] u = "u6" -> Page(<<ParDeal, ScriptContract>>)        \* no "contract" to read
          [] u = "u7" -> Page(<<MetaJan15, ParWon>>)]             \* see Overlong

\* the pages on which process_contract_page raises: their text, which the
\* catalog does not spell out, has a duration of more digits than int() converts
\* (ValueError at line 235, past the digit limit of the interpreter)
Overlong == {"u7"}

\* date1 <= date2 on <<year, month, day>>
date_le(a, b) ==
    \/ a[1] < b[1]
    \/ a[1] = b[1] /\ a[2] < b[2]
    \/ a[1] = b[1] /\ a[2] = b[2] /\ a[3] <= b[3]

Unclear == <<" ","(","d","a","t","e"," ","f","o","r","m","a","t"," ",
             "u","n","c","l","e","a","r",")">>

\* the loop body marking every date that does not parse, date range or not
filter_result_marking(res, result, range) ==
    IF result = None THEN res
    ELSE CHOOSE filtered \in
             {IF announcement_date = None
              THEN Append(res, [result[1] EXCEPT !.AnnouncementDate = @ \o Unclear])
              ELSE IF range = None THEN Append(res, result[1])
              ELSE IF date_le(range[1][1], announcement_date[1])
                      /\ date_le(announcement_date[1], range[1][2])
              THEN Append(res, result[1])
              ELSE res
              : announcement_date \in {strptime_ymd(result[1].AnnouncementDate)}} : TRUE

\* lines 572-591: what the loop body does with what process_contract_page
\* returned: the results list after it
filter_result(res, result, range) ==
    IF result = None THEN res
    ELSE IF range = None THEN Append(res, result[1])
    ELSE CHOOSE filtered \in
             {IF announcement_date = None                    \* except ValueError
              THEN Append(res, [result[1] EXCEPT !.AnnouncementDate = @ \o Unclear])
              ELSE IF date_le(range[1][1], announcement_date[1])
                      /\ date_le(announcement_date[1], range[1][2])
              THEN Append(res, result[1])
              ELSE res
              : announcement_date \in {strptime_ymd(result[1].AnnouncementDate)}} : TRUE

\* one call of an extractor, as the run's log keeps it: the extractor, what it
\* was given, what it returned, and the date on which it was called
Call(name, input, output, now) == [fn |-> name, input |-> input, output |-> output, now |-> now]

\* the calls of the extractors that process_contract_page makes, in order
extractor_calls(response, now, scripts) ==
    IF ~response.ok THEN <<>>
    ELSE CHOOSE log \in
        {<<Call("extract_publication_date", response.soup, content_data.publication_date, now)>>
         \o IF ~str_in(w_contract, content_data.text) THEN <<>>
            ELSE <<Call("extract_contract_value", content_data.text,
                        extract_contract_value(content_data.text), now),
                   Call("extract_duration", content_data.text,
                        extract_duration(content_data.text), now),
                   Call("extract_organizations", content_data.original_text,
                        extract_organizations(content_data.original_text), now),
                   Call("extract_service_type", content_data.text,
                        extract_service_type(content_data.text), now),
                   Call("generate_summary", content_data.original_text,
                        generate_summary(content_data.original_text, 3), now)>>
         : content_data \in {fetch_page_content(response, now, scripts)[1]}} : TRUE

\* process_contract_page on every page of the catalog, for each date and
\* library: the steps of the run look their page up here
Processed ==
    {[url |-> u, now |-> d, scripts |-> b,
      raised |-> u \in Overlong,
      result |-> IF u \in Overlong THEN None ELSE process_page(u, Catalog[u], d, b),
      \* extract_duration is the second extractor to be called after the date's
      calls |-> IF u \in Overlong THEN SubSeq(extractor_calls(Catalog[u], d, b), 1, 2)
                ELSE extractor_calls(Catalog[u], d, b)]
     : u \in DOMAIN Catalog, d \in {Day0, Day1}, b \in BOOLEAN}

Init ==
    /\ pc = "loop"
    /\ fn = "process_urls_with_date_filter"
    /\ text = <<>> /\ arg = 0 /\ out = None
    /\ today = Day0
    /\ old_bs4 \in BOOLEAN
    /\ web = Catalog
    /\ urls \in TokenSeqs(DOMAIN Catalog, MaxUrls)
    /\ date_range \in {None, Some(<<<<2024, 1, 1>>, <<2024, 1, 31>>>>), Some(<<Day0, Day1>>)}
    /\ idx = 1
    /\ results = <<>>
    /\ attempts = <<>>
    /\ created = <<>>
    /\ calls = <<>>
    /\ saved_urls = <<>>

\* one round of the for loop in which an exception leaves the function
ProcessUrlUncaught ==
    /\ pc = "loop"
    /\ idx <= Len(urls)
    /\ \E done \in {e \in Processed : /\ e.url = urls[idx]
                                      /\ e.now = today /\ e.scripts = old_bs4} :
           /\ results' = IF done.raised THEN results
                         ELSE filter_result(results, done.result, date_range)
           /\ created' = IF done.result = None THEN created
                         ELSE Append(created, done.result[1])
           /\ calls' = calls \o done.calls
           /\ pc' = IF done.raised THEN "done" ELSE pc
    /\ attempts' = Append(attempts, urls[idx])
    /\ idx' = idx + 1
    /\ UNCHANGED <<fn, text, arg, out, env, urls, date_range, saved_urls>>

\* one round of the for loop: lines 567-596.  An exception from
\* process_contract_page is caught at line 592 and the round ends as any other.
ProcessUrl ==
    /\ pc = "loop"
    /\ idx <= Len(urls)
    /\ \E done \in {e \in Processed : /\ e.url = urls[idx]
                                      /\ e.now = today /\ e.scripts = old_bs4} :
           /\ results' = IF done.raised THEN results
                         ELSE filter_result(results, done.result, date_range)
           /\ created' = IF done.result = None THEN created
                         ELSE Append(created, done.result[1])
           /\ calls' = calls \o done.calls
    /\ attempts' = Append(attempts, urls[idx])
    /\ idx' = idx + 1
    /\ UNCHANGED <<harness, env, urls, date_range, saved_urls>>

\* the loop is over: lines 598-611
Finish ==
    /\ pc = "loop"
    /\ idx > Len(urls)
    /\ pc' = "done"
    /\ UNCHANGED <<fn, text, arg, out, env, run, saved_urls>>

\* midnight passes while the run fetches and sleeps
Midnight ==
    /\ pc = "loop"
    /\ today = Day0
    /\ today' = Day1
    /\ UNCHANGED <<harness, old_bs4, web, run, saved_urls>>

Next == ProcessUrl \/ Finish \/ Midnight

Spec == Init /\ [][Next]_vars

\* the loop goes on: a round and the end of the run are not put off for ever
\* (requests.get has a timeout, time.sleep returns)
FairSpec == Spec /\ WF_vars(ProcessUrl) /\ WF_vars(Finish)

(***************************************************************************)
(* The saved URLs of the session: save_url, remove_saved_url and the       *)
(* buttons of the sidebar in main                                          *)
(***************************************************************************)
MaxBulkTokens == 3
MaxJsonItems == 2

\* url and (url.startswith('http://') or url.startswith('https://'))
is_http(url) ==
    LET starts_with(s, prefix) == Len(s) >= Len(prefix) /\ SubSeq(s, 1, Len(prefix)) = prefix
    IN
    /\ url # <<>>
    /\ \/ starts_with(url, <<"h","t","t","p",":","/","/">>)
       \/ starts_with(url, <<"h","t","t","p","s",":","/","/">>)

\* str.strip(chars)
str_strip_chars(s, chars) ==
    LET solid == {i \in 1..Len(s) : s[i] \notin chars}
    IN  IF solid = {} THEN <<>>
        ELSE SubSeq(s, min_of(solid), CHOOSE i \in solid : \A j \in solid : i >= j)

\* url not in [item['url'] for item in st.session_state.saved_urls]
url_is_new(saved, url) == \A i \in 1..Len(saved) : saved[i].url # url

\* save_url appending whatever it is given, asking nothing
save_url_unasked(saved, url, description, now) ==
    Append(saved, [url |-> url, description |-> description, added_date |-> strftime_ymd(now)])

\* save_url: the list after it (added_date is kept to the day)
save_url(saved, url, description, now) ==
    IF url # <<>> /\ url_is_new(saved, url)
    THEN Append(saved, [url |-> url, description |-> description,
                        added_date |-> strftime_ymd(now)])
    ELSE saved

\* remove_saved_url: the list after it; index counts from 0
remove_saved_url(saved, index) ==
    IF 0 <= index /\ index < Len(saved)
    THEN SubSeq(saved, 1, index) \o SubSeq(saved, index + 2, Len(saved))
    ELSE saved

\* lines 364-367 and 383-386: the URLs of a text with one URL per line
text_urls(content) ==
    LET lines == str_split(str_strip(content), <<"\n">>, 1)
    IN  SelectSeq([i \in 1..Len(lines) |-> str_strip(lines[i])], is_http)

\* lines 375-380: the URLs of the first column of a CSV text, after its header
csv_urls(content) ==
    LET lines == str_split(str_strip(content), <<"\n">>, 1)
        rows == SelectSeq(SubSeq(lines, 2, Len(lines)), LAMBDA line : str_strip(line) # <<>>)
    IN  SelectSeq([i \in 1..Len(rows) |->
                      str_strip_chars(str_strip(str_split(rows[i], <<",">>, 1)[1]),
                                      {"\"", "'"})],
                  is_http)

\* lines 395-400: the for loop over urls_to_add from entry k on
RECURSIVE bulk_add(_, _, _, _, _)
bulk_add(saved, urls_to_add, k, description, now) ==
    IF k > Len(urls_to_add) THEN saved
    ELSE CHOOSE result \in
        {bulk_add(next, urls_to_add, k + 1, description, now)
         : next \in {IF url_is_new(saved, urls_to_add[k])
                     THEN save_url(saved, urls_to_add[k], description, now)
                     ELSE saved}} : TRUE

\* lines 360-388: the URLs of the text area and of the uploaded file, which
\* is None or Some of a file with its content and whether its name ends with .csv
urls_to_add(bulk_urls_text, uploaded_file) ==
    (IF bulk_urls_text # <<>> THEN text_urls(bulk_urls_text) ELSE <<>>)
    \o (IF uploaded_file = None THEN <<>>
        ELSE IF uploaded_file[1].csv THEN csv_urls(uploaded_file[1].content)
        ELSE text_urls(uploaded_file[1].content))

\* lines 463-466: the for loop over imported_data from item k on.  An item is
\* a JSON object, with its url if it has one, or another JSON value, on which
\* url_data.get raises and the import ends (line 473) with what it has added.
RECURSIVE import_json(_, _, _)
import_json(saved, imported_data, k) ==
    IF k > Len(imported_data) THEN saved
    ELSE LET url_data == imported_data[k]
         IN  IF ~url_data.object THEN saved
             ELSE CHOOSE result \in
                 {import_json(next, imported_data, k + 1)
                  : next \in {IF /\ url_data.url # None
                                 /\ url_data.url[1] # <<>>
                                 /\ url_is_new(saved, url_data.url[1])
                              THEN Append(saved, [url |-> url_data.url[1],
                                                  description |-> url_data.description,
                                                  added_date |-> url_data.added_date])
                              ELSE saved}} : TRUE

\* what the user types, pastes and uploads
UrlA == <<"h","t","t","p",":","/","/","a">>
\* the lines that are pasted: a URL, the same with blanks around it, another
\* URL, one that is not http, an empty line
UrlLexicon == {
    UrlA \o <<"\n">>, <<" ">> \o UrlA \o <<" ","\n">>,
    <<"h","t","t","p","s",":","/","/","b","\n">>, <<"f","t","p",":","/","/","c","\n">>,
    <<"\n">> }
Uploads == {
    None,
    \* urls.txt
    Some([csv |-> FALSE, content |-> <<"h","t","t","p","s",":","/","/","b">> \o <<"\n">> \o <<"f","t","p",":","/","/","c">> \o <<"\n">>]),
    \* urls.csv: a header, a quoted URL, an empty row, a URL in single quotes
    Some([csv |-> TRUE,
          content |-> <<"u","r","l",",","d","\n","\"">> \o UrlA \o <<"\"",",","x","\n"," ","\n","'">>
                      \o <<"h","t","t","p","s",":","/","/","b">> \o <<"'">>]) }
JsonItems == {
    [object |-> TRUE, url |-> Some(UrlA), description |-> <<"j">>, added_date |-> <<>>],
    [object |-> TRUE, url |-> Some(<<"f","t","p",":","/","/","c">>), description |-> <<>>, added_date |-> <<>>],
    [object |-> TRUE, url |-> Some(<<>>), description |-> <<>>, added_date |-> <<>>],
    [object |-> TRUE, url |-> None, description |-> <<>>, added_date |-> <<>>],
    [object |-> FALSE, url |-> None, description |-> <<>>, added_date |-> <<>>] }

\* what the pasted texts and the uploads come to
BulkInputs ==
    {urls_to_add(bulk_urls_text, uploaded_file)
     : bulk_urls_text \in TextsOver(UrlLexicon, MaxBulkTokens), uploaded_file \in Uploads}

InitSaved ==
    /\ NoRun
    /\ today = Day0 /\ old_bs4 = FALSE /\ web = <<>>
    /\ pc = "ui" /\ fn = "main" /\ text = <<>> /\ arg = 0 /\ out = None

\* the "Save URL" button: lines 329-333
SaveUrl ==
    /\ pc = "ui"
    /\ \E new_url \in {UrlA, <<" ">> \o UrlA, <<"f","t","p",":","/","/","c">>, <<>>},
          new_description \in {<<>>, <<"d">>} :
           /\ new_url # <<>>
           /\ saved_urls' = save_url(saved_urls, new_url, new_description, today)
           /\ fn' = "save_url" /\ text' = new_url /\ arg' = 0
    /\ UNCHANGED <<pc, out, env, run>>

\* the "Import Bulk URLs" button: lines 359-410
BulkImport ==
    /\ pc = "ui"
    /\ \E urls_added \in BulkInputs :
           saved_urls' = bulk_add(saved_urls, urls_added, 1, <<"b">>, today)
    /\ fn' = "bulk_import" /\ text' = <<>> /\ arg' = 0
    /\ UNCHANGED <<pc, out, env, run>>

\* a "Remove" button: lines 416-423
RemoveSavedUrl ==
    /\ pc = "ui"
    /\ \E i \in 0..(Len(saved_urls) - 1) :
           /\ saved_urls' = remove_saved_url(saved_urls, i)
           /\ fn' = "remove_saved_url" /\ text' = <<>> /\ arg' = i
    /\ UNCHANGED <<pc, out, env, run>>

\* the "Clear All URLs" button, shown when the list is not empty: lines 427-435
ClearAll ==
    /\ pc = "ui"
    /\ saved_urls # <<>>
    /\ saved_urls' = <<>>
    /\ fn' = "clear_all" /\ text' = <<>> /\ arg' = 0
    /\ UNCHANGED <<pc, out, env, run>>

\* the "Import JSON" button, shown when the list is not empty: lines 427, 458-474
ImportJson ==
    /\ pc = "ui"
    /\ saved_urls # <<>>
    /\ \E imported_data \in TokenSeqs(JsonItems, MaxJsonItems) :
           saved_urls' = import_json(saved_urls, imported_data, 1)
    /\ fn' = "import_json" /\ text' = <<>> /\ arg' = 0
    /\ UNCHANGED <<pc, out, env, run>>

NextSaved == SaveUrl \/ BulkImport \/ RemoveSavedUrl \/ ClearAll \/ ImportJson

SpecSaved == InitSaved /\ [][NextSaved]_vars

(***************************************************************************)
(* The claims                                                              *)
(***************************************************************************)

C2_UnitNormalisation ==
    pc = "done" /\ fn = "extract_contract_value" =>
        LET found(k) == re_findall(ValuePatterns[k], text, TRUE)
            hits == {k \in 1..Len(ValuePatterns) : found(k) # <<>>}
        IN  hits # {} =>
                \E k \in {min_of(hits)} :
                \E N \in {float_of(str_remove(found(k)[1], ","))} :
                    out = Some(CASE k \in {1, 2} -> N
                                 [] k \in {3, 4} -> dec_scale(N, 3)
                                 [] k \in {5, 6} -> dec_scale(N, -3)
                                 [] k \in {7, 8, 9} -> dec_scale(N, -6))

\* C3, as the spec states it: in a text with one dollar amount, which has no
\* unit word and is followed by the words "contract for" (as in "$2,500,000
\* contract for services"), extract_contract_value gives that amount divided by
\* 1,000,000, not absent.
C3_AmountBeforeContractFor ==
    pc = "done" /\ fn = "extract_contract_value" =>
        \A n \in 2..(Len(text) - 13) :
            /\ text[1] = "$"
            /\ \A i \in 2..Len(text) : text[i] # "$"
            /\ \A i \in 2..n : text[i] \in Digits \cup {",", "."}
            /\ SubSeq(text, n + 1, n + 13) = <<" ">> \o w_contract \o <<" ","f","o","r">>
            => out = Some(dec_scale(float_of(str_remove(SubSeq(text, 2, n), ",")), -6))

\* C3, amended: when none of the six patterns with a unit matches, the amount
\* that FOLLOWS "worth", "value of" or "contract for" (the first match of the
\* first of these three patterns that has one) is divided by 1,000,000, and
\* without such a phrase before an amount the value is absent; so it is for
\* "$2,500,000 contract for services", where the amount comes first.
C3_AmountAfterPhrase ==
    pc = "done" /\ fn = "extract_contract_value" =>
        LET found(k) == re_findall(ValuePatterns[k], text, TRUE)
            bare == {k \in 7..9 : found(k) # <<>>}
        IN  /\ (\A k \in 1..6 : found(k) = <<>>) =>
                  IF bare = {} THEN out = None
                  ELSE out = Some(dec_scale(float_of(str_remove(found(min_of(bare))[1], ",")),
                                            -6))
            /\ text = Examples.bare_dollar => out = None

\* C3's case: "contract for $2,500,000" gives 2.5
C3_Witness ==
    /\ pc = "done" /\ fn = "extract_contract_value"
    /\ text = w_contract \o <<" ","f","o","r"," ">>
              \o <<"$","2",",","5","0","0",",","0","0","0">>
    /\ out = Some(Dec(25, -1))

C5_OrganizationsInTextOrder ==
    pc = "done" /\ fn = "extract_organizations" =>
        LET appears(org) == min_of({i \in 1..Len(text) :
                                       /\ i + Len(org) - 1 <= Len(text)
                                       /\ SubSeq(text, i, i + Len(org) - 1) = org})
        IN  /\ Len(out) <= 5
            /\ \A i \in 1..Len(out) : Len(out[i]) > 5 /\ str_in(out[i], text)
            /\ \A i, j \in 1..Len(out) : i < j => out[i] # out[j]
            /\ \A i, j \in 1..Len(out) : i < j => appears(out[i]) <= appears(out[j])
            /\ text = Examples.orgs =>
                  /\ Len(out) >= 2
                  /\ out[1] = <<"A","c","m","e"," ","S","o","l","u","t","i","o","n","s"," ","I","n","c">>
                  /\ out[2] = <<"B","e","t","a"," ","S","y","s","t","e","m","s"," ","L","L","C">>

\* C6: for every text, extract_service_type gives the label of least index in
\* SERVICE_TYPES among the labels that occur as a substring of the text,
\* wherever they stand in it ("cloud" for a text with both "cloud" and
\* "migration"), and absent exactly when no label occurs.
C6_FirstLabelByTaxonomyOrder ==
    pc = "done" /\ fn = "extract_service_type" =>
        LET occurring == {k \in 1..Len(SERVICE_TYPES) : str_in(SERVICE_TYPES[k], text)}
        IN  /\ out = None <=> occurring = {}
            /\ occurring # {} => out = Some(SERVICE_TYPES[min_of(occurring)])
            /\ text = Examples.cloud_migration => out = Some(<<"c","l","o","u","d">>)

\* C7: extract_publication_date always returns a string, chosen by a strict
\* cascade: the date, written YYYY-MM-DD, of the first metadata carrier in the
\* selector order (article:published_time, publishdate, publication-date,
\* date, og:published_time, time[datetime]) whose value before any "T" parses
\* as a date; if no carrier gives one, the first match, verbatim, of the first
\* of the patterns "Month D, YYYY", "D/D/YYYY", "YYYY-MM-DD" that matches the
\* page text; if none matches, the current date written YYYY-MM-DD.
C7_DateCascade ==
    pc = "done" =>
        LET dated == {k \in 1..Len(date_selectors) : carrier_date(text, k) # None}
            page_text == get_text(text, old_bs4)
            found(k) == re_findall(date_patterns[k], page_text, FALSE)
            matching == {k \in 1..Len(date_patterns) : found(k) # <<>>}
            is_ymd(str) == /\ Len(str) = 10 /\ str[5] = "-" /\ str[8] = "-"
                           /\ \A i \in (1..10) \ {5, 8} : str[i] \in Digits
        IN  /\ out # <<>>
            /\ dated # {} =>
                  /\ out = strftime_ymd(carrier_date(text, min_of(dated))[1])
                  /\ is_ymd(out)
            /\ dated = {} /\ matching # {} =>
                  /\ out = found(min_of(matching))[1]
                  /\ str_in(out, page_text)
            /\ dated = {} /\ matching = {} =>
                  /\ out = strftime_ymd(today)
                  /\ is_ymd(out)

\* C7's case: the first carrier on the page holds no date, a later one does,
\* and the later one's date is returned although the text has dates too
C7_Witness ==
    /\ pc = "done"
    /\ soup_find(text, date_selectors[1]) # None
    /\ carrier_date(text, 1) = None
    /\ carrier_date(text, 6) = Some(<<2022, 6, 1>>)
    /\ re_findall(date_patterns[1], get_text(text, old_bs4), FALSE) # <<>>
    /\ out = <<"2","0","2","2","-","0","6","-","0","1">>

\* C8, as the spec states it: for every text and every maxSentences,
\* generate_summary returns a non-empty string that is the no-summary message
\* or has at most 503 characters, the 3 of the ellipsis only after a cut at 500.
C8_SummaryBoundedForEveryMax ==
    pc = "done" /\ fn = "generate_summary" =>
        /\ out # <<>>
        /\ out = NoSummary \/ Len(out) <= SummaryLimit + Len(Ellipsis)
        /\ Len(out) > SummaryLimit =>
              SubSeq(out, SummaryLimit + 1, Len(out)) = Ellipsis

\* C8, amended: that holds for every text when maxSentences is at least 1;
\* with maxSentences = 0 the summary of a text that has a sentence of more
\* than 20 characters is the empty string.
C8_SummaryBoundedFromOne ==
    pc = "done" /\ fn = "generate_summary" =>
        /\ arg >= 1 =>
              /\ out # <<>>
              /\ out = NoSummary \/ Len(out) <= SummaryLimit + Len(Ellipsis)
              /\ Len(out) > SummaryLimit =>
                    SubSeq(out, SummaryLimit + 1, Len(out)) = Ellipsis
        /\ arg = 0 => out \in {NoSummary, <<>>}
        /\ arg = 0 /\ generate_summary(text, 1) # NoSummary => out = <<>>

\* C8's case: sentences that join to more than 500 characters, cut to 500 and
\* the ellipsis
C8_Witness ==
    /\ pc = "done" /\ fn = "generate_summary" /\ arg >= 1
    /\ Len(out) = SummaryLimit + Len(Ellipsis)
    /\ SubSeq(out, SummaryLimit + 1, Len(out)) = Ellipsis
    /\ out # NoSummary

C10_RecordsNeverChange ==
    \A i \in 1..Len(results) : \E j \in 1..Len(created) : results[i] = created[j]

\* C10, amended: without a date range the result list is the list of the
\* records as created; with one, a record of the list is as it was created
\* except that " (date format unclear)" is appended to its Announcement Date
\* when, and only when, that date does not parse as YYYY-MM-DD; no other field
\* ever changes.
C10_OnlyTheDateIsMarked ==
    /\ date_range = None => results = created
    /\ \A i \in 1..Len(results) : \E j \in 1..Len(created) :
           IF date_range # None /\ strptime_ymd(created[j].AnnouncementDate) = None
           THEN results[i] = [created[j] EXCEPT !.AnnouncementDate = @ \o Unclear]
           ELSE results[i] = created[j]

\* C10's case: a run with a date range that is over, which kept one record as
\* it was created and marked the date of another
C10_Witness ==
    /\ pc = "done" /\ date_range # None
    /\ Len(results) = 2 /\ Len(created) = 2
    /\ results[1] = created[1]
    /\ results[2] = [created[2] EXCEPT !.AnnouncementDate = @ \o Unclear]

\* C11: after any sequence of saved-URL operations from the empty list
\* (save_url, bulk import, JSON import, remove_saved_url, clear all), no two
\* entries of the saved list have the same url string and no entry has an
\* empty url.
C11_SavedUrlsUnique ==
    /\ \A i, j \in 1..Len(saved_urls) : i < j => saved_urls[i].url # saved_urls[j].url
    /\ \A i \in 1..Len(saved_urls) : saved_urls[i].url # <<>>

\* C11's case: save_url was called with a URL that the list of three holds,
\* and it is there once, not as the last entry
C11_Witness ==
    /\ fn = "save_url"
    /\ Len(saved_urls) = 3
    /\ saved_urls[1].url = text
    /\ saved_urls[3].url # text

\* C12: text inside <script> and <style> elements never appears in a field of
\* the normalized page that fetch_page_content returns (text, original_text,
\* title, publication_date), the script and style subtrees being removed
\* before any text of the page is read: the normalized page of a fetched page,
\* and so the record made from it, is that of the same page without its
\* script and style elements.
C12_ScriptTextNeverRead ==
    pc = "done" /\ fn = "process_contract_page" /\ web[text].ok =>
        \E bare \in {Page(decompose_scripts(web[text].soup))} :
            /\ fetch_page_content(web[text], today, old_bs4)
               = fetch_page_content(bare, today, old_bs4)
            /\ out = process_page(text, bare, today, old_bs4)

\* C13: process_urls_with_date_filter gives every URL of its list to
\* process_contract_page exactly once, in list order, and terminates: after a
\* failed fetch, a page without "contract" or an exception the next URL is
\* processed all the same; and the result list holds the accepted records in
\* the relative order of their URLs.
C13_EveryUrlOnceInOrder ==
    /\ [](/\ attempts = SubSeq(urls, 1, Len(attempts))
          /\ pc = "done" => attempts = urls
          /\ date_range = None => results = created
          /\ \E at \in [1..Len(results) -> 1..Len(attempts)] :
                 /\ \A i, j \in 1..Len(results) : i < j => at[i] < at[j]
                 /\ \A i \in 1..Len(results) : results[i].URL = attempts[at[i]])
    /\ <>(pc = "done")

\* C13's case: the run is over; its first URL raised an exception, and the
\* record of its second is in the results
C13_Witness ==
    /\ pc = "done" /\ fn = "process_urls_with_date_filter"
    /\ Len(urls) = 2 /\ attempts = urls
    /\ urls[1] \in Overlong
    /\ Len(results) = 1 /\ results[1].URL = urls[2]

\* C14: in every record that process_contract_page emits, Client is present
\* only if Vendor is, and when both are present they are different strings,
\* each longer than 5 characters: Vendor is entry 0 and Client entry 1 of the
\* organization list, which holds no string twice.
C14_ClientOnlyWithVendor ==
    pc = "done" /\ fn = "process_contract_page" /\ out # None =>
        \E organizations \in
               {extract_organizations(fetch_page_content(web[text], today, old_bs4)[1].original_text)} :
            /\ out[1].Client # None => out[1].Vendor # None
            /\ out[1].Vendor # None => Len(organizations) > 0 /\ out[1].Vendor[1] = organizations[1]
            /\ out[1].Client # None => Len(organizations) > 1 /\ out[1].Client[1] = organizations[2]
            /\ out[1].Vendor # None /\ out[1].Client # None =>
                   /\ out[1].Vendor # out[1].Client
                   /\ Len(out[1].Vendor[1]) > 5
                   /\ Len(out[1].Client[1]) > 5

\* C14's case: a record with a vendor and a client
C14_Witness ==
    /\ pc = "done" /\ fn = "process_contract_page" /\ out # None
    /\ out[1].Vendor # None
    /\ out[1].Client # None

\* C15: for every text, extract_service_type never returns "AI" or "BPO": what
\* it returns is absent or one of the 11 labels written in lower case, which
\* the lowercased text contains; a text about "AI" gets another label or none.
C15_NeverAIOrBPO ==
    pc = "done" /\ fn = "extract_service_type" =>
        /\ out # Some(<<"A","I">>)
        /\ out # Some(<<"B","P","O">>)
        /\ out # None =>
               /\ \E k \in 1..Len(SERVICE_TYPES) :
                      out = Some(SERVICE_TYPES[k]) /\ str_lower(SERVICE_TYPES[k]) = SERVICE_TYPES[k]
               /\ str_in(out[1], str_lower(text))
        /\ Cardinality({k \in 1..Len(SERVICE_TYPES) : str_lower(SERVICE_TYPES[k]) = SERVICE_TYPES[k]}) = 11

\* C15's case: a text with "AI" and with "BPO" in it has been classified, by
\* another label
C15_Witness ==
    /\ pc = "done" /\ fn = "extract_service_type"
    /\ str_in(<<"A","I">>, text)
    /\ str_in(<<"B","P","O">>, text)
    /\ out = Some(<<"c","l","o","u","d">>)

=============================================================================
